---- MODULE Spec2Model ----
(***************************************************************************)
(* A CLAP plugin hosted on a JACK client (src/src/main.rs).                *)
(*                                                                         *)
(* Two threads are modelled: the main thread, which walks main() from the  *)
(* bundle load to the parked loop, and the JACK realtime thread, which     *)
(* runs JackHandler::process once per block after activate_async.          *)
(* Samples are integers standing for f32 values; 0 stands for 0.0.         *)
(***************************************************************************)
EXTENDS Integers, Sequences, FiniteSets, TLC

\* Largest block length (frames) the audio server delivers or reports.
MaxBlock == 2
\* Largest number of descriptors the bundle's factory lists.
MaxDescs == 2

\* Sample rates the audio server may run at (usize values of Client::sample_rate).
SampleRates == {44100, 48000}
\* Block lengths: jack frames are never zero for a process cycle.
BlockSizes == 1..MaxBlock

---------------------------------------------------------------------------
\* Strings and descriptor identifiers

\* "in.lsp-plug.noise_generator_x1" as its code points (all ASCII).
target_id ==
    << 105, 110, 46, 108, 115, 112, 45, 112, 108, 117, 103, 46, 110, 111, 105,
       115, 101, 95, 103, 101, 110, 101, 114, 97, 116, 111, 114, 95, 120, 49 >>

\* Option<&CStr>: d.id() of a descriptor.
None == [some |-> FALSE, bytes |-> << >>]
Some(b) == [some |-> TRUE, bytes |-> b]

\* The same identifier with its first letter in upper case ("In.lsp-...").
UpperId == [target_id EXCEPT ![1] = 73]
\* The identifier followed by a byte that is not valid UTF-8 (0xFF).
InvalidUtf8Id == Append(target_id, 255)

\* The identifiers a descriptor of the bundle may carry.
DescIds == {None, Some(target_id), Some(UpperId), Some(InvalidUtf8Id)}

RECURSIVE SeqsUpTo(_, _)
SeqsUpTo(S, k) ==
    IF k = 0 THEN {<< >>}
    ELSE LET shorter == SeqsUpTo(S, k - 1)
         IN  shorter \cup {Append(s, x) : s \in {t \in shorter : Len(t) = k - 1}, x \in S}

\* CStr::to_string_lossy: ASCII bytes are kept, a byte that is not part of a
\* valid UTF-8 sequence becomes U+FFFD. (Bytes here are ASCII or 0xFF.)
ToStringLossy(bytes) ==
    [i \in 1..Len(bytes) |-> IF bytes[i] < 128 THEN bytes[i] ELSE 65533]

\* Mutant: the loop without its break keeps the last match.
RECURSIVE FindDescriptorNoBreak(_, _, _)
FindDescriptorNoBreak(descs, i, target) ==
    IF i > Len(descs) THEN 0
    ELSE LET later == FindDescriptorNoBreak(descs, i + 1, target)
         IN  IF later # 0 THEN later
             ELSE IF descs[i].some /\ ToStringLossy(descs[i].bytes) = target THEN i
             ELSE 0

\* The for loop of main over factory.plugin_descriptors(), from position i:
\* the index of the descriptor left in target_desc, 0 for None.
RECURSIVE FindDescriptor(_, _, _)
FindDescriptor(descs, i, target) ==
    IF i > Len(descs) THEN 0
    ELSE IF descs[i].some /\ ToStringLossy(descs[i].bytes) = target THEN i
    ELSE FindDescriptor(descs, i + 1, target)

---------------------------------------------------------------------------
\* Host identity

\* The four literals of HostInfo::new as code points: "jack_minimal_clap",
\* "Giles", "https://example.invalid", "0.1.0".
host_name ==
    << 106, 97, 99, 107, 95, 109, 105, 110, 105, 109, 97, 108, 95, 99, 108,
       97, 112 >>
host_vendor ==
    << 71, 105, 108, 101, 115 >>
host_url ==
    << 104, 116, 116, 112, 115, 58, 47, 47, 101, 120, 97, 109, 112, 108, 101,
       46, 105, 110, 118, 97, 108, 105, 100 >>
host_version ==
    << 48, 46, 49, 46, 48 >>

\* CString::new: a string with an interior NUL byte is refused.
HasNul(str) == \E i \in 1..Len(str) : str[i] = 0

\* HostInfo::new(name, vendor, url, version): Err on the first NUL found.
HostInfoNew(name, vendor, url, version) ==
    ~(HasNul(name) \/ HasNul(vendor) \/ HasNul(url) \/ HasNul(version))

---------------------------------------------------------------------------
\* Audio configuration

\* `as f64` of a usize: exact for every value below 2^53, which covers the
\* 32-bit frame rates of the audio server.
AsF64(x) == x

NoCfg == [sample_rate |-> 0, min_frames_count |-> 0, max_frames_count |-> 0]

\* Mutant: a hard-coded rate and a block range one frame short.
PluginAudioConfigurationFixed(sr, fr) ==
    [sample_rate |-> 48000, min_frames_count |-> fr, max_frames_count |-> fr - 1]

\* let audio_cfg = PluginAudioConfiguration { .. }
PluginAudioConfiguration(sr, fr) ==
    [sample_rate |-> sr, min_frames_count |-> fr, max_frames_count |-> fr]

---------------------------------------------------------------------------
\* Vec<f32>

NoVec == [data |-> << >>, cap |-> 0]

\* RawVec::grow_amortized for a 4-byte element: at least double, at least 4.
MinNonZeroCap == 4
Max(a, b) == IF a >= b THEN a ELSE b
GrowAmortized(cap, required) == Max(Max(cap * 2, required), MinNonZeroCap)

\* Vec::resize(n, value): truncate, or extend with value, reallocating when
\* the capacity is too small.
Resize(v, n, value) ==
    IF n > Len(v.data)
    THEN [data |-> v.data \o [i \in 1..(n - Len(v.data)) |-> value],
          cap  |-> IF n > v.cap THEN GrowAmortized(v.cap, n) ELSE v.cap]
    ELSE [data |-> SubSeq(v.data, 1, n), cap |-> v.cap]

\* Mutant: only a buffer that is too short is resized.
NeedsResizeIfShorter(v, n) == Len(v.data) < n

\* self.X.len() != n
NeedsResize(v, n) == Len(v.data) # n

\* Mutant: new samples are filled with 1.0.
EnsureLenFillOne(v, n) == IF NeedsResize(v, n) THEN Resize(v, n, 1) ELSE v

\* if self.X.len() != n { self.X.resize(n, 0.0); }
EnsureLen(v, n) == IF NeedsResize(v, n) THEN Resize(v, n, 0) ELSE v

---------------------------------------------------------------------------
\* The plugin and the audio server's port buffers

\* The generator repeats after Period frames.
Period == 2
\* Left and right sample of the generator at position p: the channels differ.
GenL(p) == (p % Period) + 1
GenR(p) == 0 - ((p % Period) + 1)

\* What proc.process can give back: Ok(ProcessStatus) or Err(PluginError).
PluginResults == {"Continue", "Error"}

\* The plugin's render entry point on two output slices of the same length:
\* it writes the first k frames (all of them when it succeeds, all or none
\* when it fails) and advances by what it wrote. It is a generator: it does
\* not read and never writes its input channels.
PluginRender(sl, sr, p, k) ==
    [l     |-> [i \in 1..Len(sl) |-> IF i <= k THEN GenL(p + i - 1) ELSE sl[i]],
     r     |-> [i \in 1..Len(sr) |-> IF i <= k THEN GenR(p + i - 1) ELSE sr[i]],
     phase |-> (p + k) % Period]

\* Events the plugin pushes to its output queue in a call that starts at p and
\* writes k frames: one whenever the generator wraps around.
PluginEvents(p, k) == IF k > 0 /\ p + k >= Period THEN << "wrap" >> ELSE << >>

\* Mutant: a processor made anew (or reset) for every block starts at 0.
ProcessorStateRestarted(p) == 0

\* self.proc is the processor main started, kept in the handler from block to
\* block: it is where the last call left it.
ProcessorState(p) == p

\* let empty_in: [&UnknownEvent; 0] = []
empty_in == << >>

\* Mutant: one event buffer kept from callback to callback.
EventBufferKept(last) == last

\* EventBuffer::new() in a callback whose predecessor left `last` in its
\* buffer: a new local, empty; the old one was dropped when that call ended.
EventBufferNew(last) == << >>

\* Result::unwrap_or(ProcessStatus::Continue)
UnwrapOr(res, default) == IF res = "Error" THEN default ELSE res

\* Mutant: the copy starts one frame late.
CopyFromSliceShifted(mem, len, src) ==
    [mem      |-> [i \in 1..Len(mem) |->
                      IF 2 <= i /\ i <= len + 1 /\ i - 1 <= Len(src)
                      THEN src[i - 1] ELSE mem[i]],
     written  |-> {i \in 1..Len(mem) : 2 <= i /\ i <= len + 1},
     panicked |-> FALSE]

\* dst.copy_from_slice(src) on dst = the first len frames of the port memory
\* mem: panics unless the two lengths agree, else overwrites exactly dst.
CopyFromSlice(mem, len, src) ==
    IF Len(src) # len
    THEN [mem |-> mem, written |-> {}, panicked |-> TRUE]
    ELSE [mem      |-> [i \in 1..Len(mem) |-> IF i <= len THEN src[i] ELSE mem[i]],
          written  |-> 1..len,
          panicked |-> FALSE]

\* Mutant: the callback stops the server when the plugin fails.
ProcessControlStopOnError(res, panicked) ==
    IF panicked THEN "Panic" ELSE IF res = "Error" THEN "Quit" ELSE "Continue"

\* What JackHandler::process gives back to the server: Control::Continue,
\* unless a copy panicked before the return was reached.
ProcessControl(res, panicked) == IF panicked THEN "Panic" ELSE "Continue"

Zeros(len) == [i \in 1..len |-> 0]

---------------------------------------------------------------------------
\* State

VARIABLES
    pc,              \* main(): the statement about to run
    exit_code,       \* -1 while the process runs
    bundle,          \* "unloaded" | "loaded" | "dropped"
    descriptors,     \* the factory's descriptor identifiers, in order
    target_desc,     \* index of the chosen descriptor, 0 for None
    lifecycle,       \* the plugin instance's state
    proc_owner,      \* who holds the audio processor: "none" | "main" | "handler"
    jack_client,     \* "none" | "open" | "active" | "closed"
    srv_sample_rate, \* what the server reports
    srv_buffer_size,
    sample_rate,     \* main's locals
    frames,
    audio_cfg,
    ports,           \* registered port names
    log,             \* lifecycle steps, done or failed, in the order they happened
    handler_access,  \* threads that used the handler's fields since the hand-off
    in_l, in_r, scratch_l, scratch_r,   \* JackHandler's Vec<f32> fields
    out_l, out_r,    \* the server's port buffers (MaxBlock frames of memory)
    phase,           \* the plugin's generator position
    phase_before,    \* the plugin's position when the last callback began
    call,            \* what the last proc.process call was handed besides audio
    output_events_buf, \* output_events_buf as the last callback ended
    events_dropped,  \* an earlier callback ended with events in its buffer
    n,               \* block length of the last callback, 0 before the first
    result,          \* what proc.process gave back in the last callback
    status,          \* _status of the last callback
    control,         \* what the last callback returned
    touched,         \* indices written in the last callback, per buffer and by the plugin
    created          \* what the last callback allocated and resized

mainVars == << pc, exit_code, bundle, descriptors, target_desc, lifecycle, proc_owner,
               jack_client, srv_sample_rate, srv_buffer_size, sample_rate, frames,
               audio_cfg, ports, log, handler_access >>
rtVars == << in_l, in_r, scratch_l, scratch_r, out_l, out_r, phase, phase_before, call,
             output_events_buf, events_dropped, n, result, status, control, touched,
             created >>
vars == << mainVars, rtVars >>

NoTouch == [out_l |-> {}, out_r |-> {}, scratch_l |-> {}, scratch_r |-> {},
            in_l |-> {}, in_r |-> {}, plugin |-> {}]
NoCall == [input_events |-> << >>, output_events |-> << >>,
           transport |-> "NotCalled", steady_time |-> "NotCalled"]
NoCreated == [port_containers |-> 0, event_buffers |-> 0, resized |-> {}, grown |-> {},
              reallocated |-> {}]

\* The process before main's first statement.
Init ==
    /\ pc = "load"
    /\ exit_code = -1
    /\ bundle = "unloaded"
    /\ descriptors \in SeqsUpTo(DescIds, MaxDescs)
    /\ target_desc = 0
    /\ lifecycle = "Unloaded"
    /\ proc_owner = "none"
    /\ jack_client = "none"
    /\ srv_sample_rate \in SampleRates
    /\ srv_buffer_size \in BlockSizes
    /\ sample_rate = 0
    /\ frames = 0
    /\ audio_cfg = NoCfg
    /\ ports = {}
    /\ log = << >>
    /\ handler_access = {}
    /\ in_l = NoVec /\ in_r = NoVec /\ scratch_l = NoVec /\ scratch_r = NoVec
    /\ out_l = Zeros(MaxBlock) /\ out_r = Zeros(MaxBlock)
    /\ phase = 0
    /\ phase_before = 0
    /\ call = NoCall
    /\ output_events_buf = << >>
    /\ events_dropped = FALSE
    /\ n = 0
    /\ result = "NotCalled"
    /\ status = "NotCalled"
    /\ control = "NotCalled"
    /\ touched = NoTouch
    /\ created = NoCreated

---------------------------------------------------------------------------
\* The main thread

\* Mutant: bundle declared after instance, so dropped before it.
AfterDropBundleFirst(step) ==
    CASE step = "drop_jack_client" -> "drop_bundle"
      [] step = "drop_bundle"      -> "drop_instance"
      [] step = "drop_instance"    -> "exited"

\* The order in which main's locals go when main returns or unwinds, the
\* reverse of their declaration: jack_client (line 83), the processor and
\* instance (74), bundle (40).
AfterDrop(step) ==
    CASE step = "drop_jack_client" -> "drop_instance"
      [] step = "drop_instance"    -> "drop_bundle"
      [] step = "drop_bundle"      -> "exited"

\* An Err returned through `?` (exit code 1) or a panic of expect (101):
\* main's locals are dropped in reverse order of declaration.
Unwind(code) ==
    /\ pc' = "drop_jack_client"
    /\ exit_code' = code

\* let bundle = unsafe { PluginBundle::load(&plugin_path) }...?
MainLoadBundle ==
    /\ pc = "load"
    /\ \E ok \in BOOLEAN :
          IF ok
          THEN /\ bundle' = "loaded"
               /\ pc' = "factory"
               /\ UNCHANGED exit_code
          ELSE /\ Unwind(1)
               /\ UNCHANGED bundle
    /\ log' = IF pc' = "factory" THEN log ELSE Append(log, "failed_load")
    /\ UNCHANGED << descriptors, target_desc, lifecycle, proc_owner, jack_client,
                    srv_sample_rate, srv_buffer_size, sample_rate, frames, audio_cfg,
                    ports, handler_access, rtVars >>

\* let factory = bundle.get_plugin_factory().ok_or(..)?
MainGetFactory ==
    /\ pc = "factory"
    /\ \E ok \in BOOLEAN :
          IF ok
          THEN /\ pc' = "select"
               /\ UNCHANGED exit_code
          ELSE Unwind(1)
    /\ log' = IF pc' = "select" THEN log ELSE Append(log, "failed_factory")
    /\ UNCHANGED << bundle, descriptors, target_desc, lifecycle, proc_owner, jack_client,
                    srv_sample_rate, srv_buffer_size, sample_rate, frames, audio_cfg,
                    ports, handler_access, rtVars >>

\* The descriptor loop and the let-else after it: std::process::exit(3) runs
\* no destructor.
MainSelectDescriptor ==
    /\ pc = "select"
    /\ LET found == FindDescriptor(descriptors, 1, target_id)
       IN  /\ target_desc' = found
           /\ IF found # 0
              THEN /\ pc' = "host_info"
                   /\ UNCHANGED exit_code
              ELSE /\ pc' = "exited"
                   /\ exit_code' = 3
    /\ log' = IF pc' = "host_info" THEN log ELSE Append(log, "failed_select")
    /\ UNCHANGED << bundle, descriptors, lifecycle, proc_owner, jack_client,
                    srv_sample_rate, srv_buffer_size, sample_rate, frames, audio_cfg,
                    ports, handler_access, rtVars >>

\* let host_info = HostInfo::new(..)?: on these four literals it succeeds.
MainHostInfo ==
    /\ pc = "host_info"
    /\ IF HostInfoNew(host_name, host_vendor, host_url, host_version)
       THEN /\ pc' = "new_instance"
            /\ UNCHANGED << exit_code, log >>
       ELSE /\ Unwind(1)
            /\ log' = Append(log, "failed_host_info")
    /\ UNCHANGED << bundle, descriptors, target_desc, lifecycle, proc_owner,
                    jack_client, srv_sample_rate, srv_buffer_size, sample_rate, frames,
                    audio_cfg, ports, handler_access, rtVars >>

\* let mut instance = PluginInstance::<MyHost>::new(..)?
MainNewInstance ==
    /\ pc = "new_instance"
    /\ \E ok \in BOOLEAN :
          IF ok
          THEN /\ lifecycle' = "Created"
               /\ pc' = "jack_open"
               /\ UNCHANGED exit_code
          ELSE /\ Unwind(1)
               /\ UNCHANGED lifecycle
    /\ log' = IF pc' = "jack_open" THEN log ELSE Append(log, "failed_new_instance")
    /\ UNCHANGED << bundle, descriptors, target_desc, proc_owner, jack_client,
                    srv_sample_rate, srv_buffer_size, sample_rate, frames, audio_cfg,
                    ports, handler_access, rtVars >>

\* Client::new(..).expect(..), then sample_rate() and buffer_size().
MainJackOpen ==
    /\ pc = "jack_open"
    /\ \E ok \in BOOLEAN :
          IF ok
          THEN /\ jack_client' = "open"
               /\ sample_rate' = AsF64(srv_sample_rate)
               /\ frames' = srv_buffer_size
               /\ pc' = "activate"
               /\ UNCHANGED exit_code
          ELSE /\ Unwind(101)
               /\ UNCHANGED << jack_client, sample_rate, frames >>
    /\ UNCHANGED << bundle, descriptors, target_desc, lifecycle, proc_owner,
                    srv_sample_rate, srv_buffer_size, audio_cfg, ports, log, handler_access, rtVars >>

\* Mutant: a failed activation is not returned.
ActivateOutcomeIgnored(ok) ==
    IF ok THEN [lifecycle |-> "Activated", next |-> "start", failed |-> FALSE]
    ELSE [lifecycle |-> lifecycle, next |-> "start", failed |-> FALSE]

\* instance.activate(..)?: the state the instance is left in and where main goes.
ActivateOutcome(ok) ==
    IF ok THEN [lifecycle |-> "Activated", next |-> "start", failed |-> FALSE]
    ELSE [lifecycle |-> lifecycle, next |-> "drop_jack_client", failed |-> TRUE]

\* let audio_cfg = ..; let audio_proc_stopped = instance.activate(|_, _| (), audio_cfg)?
MainActivate ==
    /\ pc = "activate"
    /\ audio_cfg' = PluginAudioConfiguration(sample_rate, frames)
    /\ \E ok \in BOOLEAN :
          LET o == ActivateOutcome(ok)
          IN  /\ lifecycle' = o.lifecycle
              /\ pc' = o.next
              /\ exit_code' = IF o.failed THEN 1 ELSE exit_code
              /\ proc_owner' = IF ok THEN "main" ELSE proc_owner
              /\ log' = Append(log, IF ok THEN "activate" ELSE "failed_activate")
    /\ UNCHANGED << bundle, descriptors, target_desc, jack_client, srv_sample_rate,
                    srv_buffer_size, sample_rate, frames, ports, handler_access, rtVars >>

\* Mutant: a failed start is not returned.
StartOutcomeIgnored(ok) ==
    IF ok THEN [lifecycle |-> "Processing", next |-> "register", failed |-> FALSE]
    ELSE [lifecycle |-> lifecycle, next |-> "register", failed |-> FALSE]

\* audio_proc_stopped.start_processing()?
StartOutcome(ok) ==
    IF ok THEN [lifecycle |-> "Processing", next |-> "register", failed |-> FALSE]
    ELSE [lifecycle |-> lifecycle, next |-> "drop_jack_client", failed |-> TRUE]

\* let audio_proc_started = audio_proc_stopped.start_processing()?
MainStartProcessing ==
    /\ pc = "start"
    /\ \E ok \in BOOLEAN :
          LET o == StartOutcome(ok)
          IN  /\ lifecycle' = o.lifecycle
              /\ pc' = o.next
              /\ exit_code' = IF o.failed THEN 1 ELSE exit_code
              /\ log' = Append(log, IF ok THEN "start_processing"
                                           ELSE "failed_start_processing")
    /\ UNCHANGED << bundle, descriptors, target_desc, proc_owner, jack_client,
                    srv_sample_rate, srv_buffer_size, sample_rate, frames, audio_cfg,
                    ports, handler_access, rtVars >>

\* register_port("out_l", ..).expect(..) and register_port("out_r", ..).expect(..)
MainRegisterPorts ==
    /\ pc = "register"
    /\ \E okl \in BOOLEAN, okr \in BOOLEAN :
          /\ ports' = IF okl THEN (IF okr THEN {"out_l", "out_r"} ELSE {"out_l"}) ELSE {}
          /\ IF okl /\ okr
             THEN /\ pc' = "activate_async"
                  /\ UNCHANGED exit_code
             ELSE Unwind(101)
    /\ UNCHANGED << bundle, descriptors, target_desc, lifecycle, proc_owner, jack_client,
                    srv_sample_rate, srv_buffer_size, sample_rate, frames, audio_cfg,
                    log, handler_access, rtVars >>

\* let handler = JackHandler { .. }; jack_client.activate_async((), handler).expect(..)
\* The handler, and the processor in it, are moved to the client either way.
MainActivateAsync ==
    /\ pc = "activate_async"
    /\ proc_owner' = "handler"
    /\ handler_access' = {}
    /\ in_l' = NoVec /\ in_r' = NoVec /\ scratch_l' = NoVec /\ scratch_r' = NoVec
    /\ \E ok \in BOOLEAN :
          IF ok
          THEN /\ jack_client' = "active"
               /\ log' = Append(log, "activate_async")
               /\ pc' = "park"
               /\ UNCHANGED exit_code
          ELSE /\ Unwind(101)
               /\ UNCHANGED << jack_client, log >>
    /\ UNCHANGED << bundle, descriptors, target_desc, lifecycle, srv_sample_rate,
                    srv_buffer_size, sample_rate, frames, audio_cfg, ports,
                    out_l, out_r, phase, phase_before, call, output_events_buf,
                    events_dropped, n, result, status, control, touched, created >>

\* Mutant: park once, without the loop: main goes on to return.
ParkStepReturns == [next |-> "drop_jack_client", access |-> {}]

\* Mutant: the loop looks at the handler it gave away.
ParkStepPollsHandler == [next |-> "park", access |-> {"main"}]

\* One turn of loop { std::thread::park(); }: where main is afterwards, and
\* the threads it adds to the users of the handler's fields (none: the body
\* names no variable).
ParkStep == [next |-> "park", access |-> {}]

\* loop { std::thread::park(); }: whenever park returns, the loop parks again.
MainPark ==
    /\ pc = "park"
    /\ pc' = ParkStep.next
    /\ handler_access' = handler_access \cup ParkStep.access
    /\ UNCHANGED << exit_code, bundle, descriptors, target_desc, lifecycle, proc_owner,
                    jack_client, srv_sample_rate, srv_buffer_size, sample_rate, frames,
                    audio_cfg, ports, log, rtVars >>

\* Drop of jack_client on the way out (declared after instance, dropped before it).
MainDropJackClient ==
    /\ pc = "drop_jack_client"
    /\ jack_client' = IF jack_client = "none" THEN "none" ELSE "closed"
    /\ ports' = {}
    /\ pc' = AfterDrop("drop_jack_client")
    /\ UNCHANGED << exit_code, bundle, descriptors, target_desc, lifecycle, proc_owner,
                    srv_sample_rate, srv_buffer_size, sample_rate, frames, audio_cfg,
                    log, handler_access, rtVars >>

\* Drop of the processor and of instance: the plugin is stopped, deactivated
\* and destroyed.
MainDropInstance ==
    /\ pc = "drop_instance"
    /\ lifecycle' = IF lifecycle = "Unloaded" THEN "Unloaded" ELSE "Destroyed"
    /\ proc_owner' = "none"
    /\ pc' = AfterDrop("drop_instance")
    /\ UNCHANGED << exit_code, bundle, descriptors, target_desc, jack_client,
                    srv_sample_rate, srv_buffer_size, sample_rate, frames, audio_cfg,
                    ports, log, handler_access, rtVars >>

\* Drop of bundle, the first local declared and the last dropped.
MainDropBundle ==
    /\ pc = "drop_bundle"
    /\ bundle' = IF bundle = "loaded" THEN "dropped" ELSE bundle
    /\ pc' = AfterDrop("drop_bundle")
    /\ UNCHANGED << exit_code, descriptors, target_desc, lifecycle, proc_owner,
                    jack_client, srv_sample_rate, srv_buffer_size, sample_rate, frames,
                    audio_cfg, ports, log, handler_access, rtVars >>

---------------------------------------------------------------------------
\* The realtime thread

\* Indices a resize from old to new fills with its value.
Filled(old, new) == (Len(old.data) + 1)..Len(new.data)

\* Indices at which two views of the same port memory differ.
Changed(before, after) == {i \in 1..Len(before) : before[i] # after[i]}

\* The handler's buffers by field name.
Names == {"in_l", "in_r", "scratch_l", "scratch_r"}

\* JackHandler::process for one block of len frames; the plugin answers res
\* after writing part frames.
JackProcess ==
    /\ jack_client = "active"
    /\ \E len \in BlockSizes, res \in PluginResults, part \in 0..MaxBlock :
          /\ part \in {0, len}
          /\ (res # "Error" => part = len)
          /\ LET il  == EnsureLen(in_l, len)
                 ir  == EnsureLen(in_r, len)
                 sl  == EnsureLen(scratch_l, len)
                 sr  == EnsureLen(scratch_r, len)
                 old == [in_l |-> in_l, in_r |-> in_r,
                         scratch_l |-> scratch_l, scratch_r |-> scratch_r]
                 new == [in_l |-> il, in_r |-> ir, scratch_l |-> sl, scratch_r |-> sr]
                 start == ProcessorState(phase)
                 evbuf == EventBufferNew(output_events_buf)
                 out == PluginRender(sl.data, sr.data, start, part)
                 cl  == CopyFromSlice(out_l, len, out.l)
                 \* the second copy reads scratch_l as well
                 cr  == IF cl.panicked
                        THEN [mem |-> out_r, written |-> {}, panicked |-> TRUE]
                        ELSE CopyFromSlice(out_r, len, out.l)
             IN  /\ n' = len
                 /\ in_l' = il
                 /\ in_r' = ir
                 /\ scratch_l' = [sl EXCEPT !.data = out.l]
                 /\ scratch_r' = [sr EXCEPT !.data = out.r]
                 /\ phase' = out.phase
                 /\ phase_before' = phase
                 /\ call' = [input_events  |-> empty_in,
                             output_events |-> evbuf,
                             transport     |-> "None",
                             steady_time   |-> "None"]
                 /\ output_events_buf' = evbuf \o PluginEvents(start, part)
                 /\ events_dropped' = (events_dropped \/ output_events_buf # << >>)
                 /\ result' = res
                 /\ status' = UnwrapOr(res, "Continue")
                 /\ out_l' = cl.mem
                 /\ out_r' = cr.mem
                 /\ control' = ProcessControl(res, cl.panicked \/ cr.panicked)
                 /\ touched' = [out_l     |-> cl.written \cup Changed(out_l, cl.mem),
                                out_r     |-> cr.written \cup Changed(out_r, cr.mem),
                                scratch_l |-> Filled(scratch_l, sl) \cup 1..part,
                                scratch_r |-> Filled(scratch_r, sr) \cup 1..part,
                                in_l      |-> Filled(in_l, il),
                                in_r      |-> Filled(in_r, ir),
                                plugin    |-> 1..part]
                 /\ created' = [port_containers |-> 2,
                                event_buffers   |-> 1,
                                resized     |-> {b \in Names : NeedsResize(old[b], len)},
                                grown       |-> {b \in Names :
                                                   Len(new[b].data) > Len(old[b].data)},
                                reallocated |-> {b \in Names : new[b].cap # old[b].cap}]
    /\ log' = IF \E i \in 1..Len(log) : log[i] = "render" THEN log
              ELSE Append(log, "render")
    /\ handler_access' = handler_access \cup {"audio"}
    /\ UNCHANGED << pc, exit_code, bundle, descriptors, target_desc, lifecycle,
                    proc_owner, jack_client, srv_sample_rate, srv_buffer_size,
                    sample_rate, frames, audio_cfg, ports >>

---------------------------------------------------------------------------
\* Specification

Next ==
    \/ MainLoadBundle
    \/ MainGetFactory
    \/ MainSelectDescriptor
    \/ MainHostInfo
    \/ MainNewInstance
    \/ MainJackOpen
    \/ MainActivate
    \/ MainStartProcessing
    \/ MainRegisterPorts
    \/ MainActivateAsync
    \/ MainPark
    \/ MainDropJackClient
    \/ MainDropInstance
    \/ MainDropBundle
    \/ JackProcess

Spec == Init /\ [][Next]_vars

---------------------------------------------------------------------------
\* Properties

\* A callback has run to its end.
Rendered == control # "NotCalled"

Happened(ev) == \E i \in 1..Len(log) : log[i] = ev
Before(a, b) == \E i \in 1..Len(log), j \in 1..Len(log) : i < j /\ log[i] = a /\ log[j] = b

\* C1: the render entry point runs only while the instance is Processing;
\* a render is preceded by a successful activate, then a successful
\* start_processing, then the hand-off activate_async, in that order, and
\* by then main has reached its parked loop.
C1_RenderOnlyWhileProcessing ==
    Happened("render") =>
        /\ lifecycle = "Processing"
        /\ proc_owner = "handler"
        /\ Before("activate", "start_processing")
        /\ Before("start_processing", "activate_async")
        /\ Before("activate_async", "render")
        /\ pc = "park"

\* C1 witness: a block of two frames has been rendered.
C1_Witness == Happened("render") /\ Rendered /\ n = 2 /\ result = "Continue"

\* C2: after a callback of n frames out_l holds scratch_l and out_r holds
\* scratch_r, n samples each.
C2_OutputsEqualScratch ==
    Rendered =>
        /\ SubSeq(out_l, 1, n) = scratch_l.data
        /\ SubSeq(out_r, 1, n) = scratch_r.data
        /\ Len(scratch_l.data) = n
        /\ Len(scratch_r.data) = n

\* C3: when the plugin's render call fails, the callback writes silence to
\* both output channels for that block and still returns Continue.
C3_SilenceOnError ==
    (Rendered /\ result = "Error") =>
        /\ \A i \in 1..n : out_l[i] = 0 /\ out_r[i] = 0
        /\ control = "Continue"

\* C4: the buffers are pre-sized, so a callback whose block length is at most
\* max_frames_count neither grows nor reallocates a buffer.
C4_NoGrowthWithinMax ==
    (Rendered /\ n <= audio_cfg.max_frames_count) =>
        /\ created.grown = {}
        /\ created.reallocated = {}

\* C5: a callback allocates nothing: it creates no audio port container and
\* no event buffer and reallocates no Vec.
C5_NoAllocationInCallback ==
    Rendered =>
        /\ created.port_containers = 0
        /\ created.event_buffers = 0
        /\ created.reallocated = {}

\* C6: at every render call the four channel buffers have the block length
\* n, and n lies within [min_frames_count, max_frames_count] of the
\* configuration the instance was activated with.
C6_BlockLengthWithinConfig ==
    Rendered =>
        /\ Len(in_l.data) = n /\ Len(in_r.data) = n
        /\ Len(scratch_l.data) = n /\ Len(scratch_r.data) = n
        /\ audio_cfg.min_frames_count <= n
        /\ n <= audio_cfg.max_frames_count

\* C7: the configuration handed to activate carries the server's sample rate
\* and has min_frames_count = max_frames_count = the server's buffer size;
\* both were read from the open client before the configuration was built.
C7_ConfigFromServer ==
    (audio_cfg # NoCfg \/ lifecycle \in {"Activated", "Processing"}) =>
        /\ jack_client # "none"
        /\ sample_rate = srv_sample_rate
        /\ frames = srv_buffer_size
        /\ audio_cfg.sample_rate = srv_sample_rate
        /\ audio_cfg.min_frames_count = srv_buffer_size
        /\ audio_cfg.max_frames_count = srv_buffer_size
        /\ audio_cfg.min_frames_count <= audio_cfg.max_frames_count

\* C7 witness: activated at 44100 Hz with blocks of two frames.
C7_Witness ==
    /\ lifecycle = "Activated"
    /\ audio_cfg.sample_rate = 44100
    /\ audio_cfg.max_frames_count = 2

\* C8: after a callback of n frames exactly the indices 1..n of each output
\* channel were written, and nothing outside 1..n of an output or scratch
\* buffer was touched.
C8_ExactlyNWritten ==
    Rendered =>
        /\ touched.out_l = 1..n
        /\ touched.out_r = 1..n
        /\ touched.scratch_l \subseteq 1..n
        /\ touched.scratch_r \subseteq 1..n
        /\ Len(scratch_l.data) = n
        /\ Len(scratch_r.data) = n

\* C8 witness: a block shorter than the port memory was written.
C8_Witness == Rendered /\ n = 1 /\ n < Len(out_l) /\ touched.out_l = {1}

\* C9: every callback returns Continue, whatever the plugin answered and
\* whatever the block length.
C9_AlwaysContinue == Rendered => control = "Continue"

\* C9 witness: the plugin failed and the callback returned Continue.
C9_Witness == Rendered /\ result = "Error" /\ control = "Continue"

\* A descriptor whose identifier is byte for byte the target.
IsMatch(d) == d.some /\ d.bytes = target_id
NoMatch == \A i \in 1..Len(descriptors) : ~IsMatch(descriptors[i])

\* C10: the chosen descriptor is the first one whose identifier equals the
\* target exactly; when none does, the process exits with code 3 and no
\* instance is ever created.
C10_FirstExactMatch ==
    /\ target_desc # 0 =>
          /\ target_desc \in 1..Len(descriptors)
          /\ IsMatch(descriptors[target_desc])
          /\ \A j \in 1..(target_desc - 1) : ~IsMatch(descriptors[j])
    /\ (lifecycle # "Unloaded" \/ pc \in {"host_info", "new_instance"}) => target_desc # 0
    /\ exit_code = 3 => NoMatch
    /\ NoMatch =>
          /\ lifecycle = "Unloaded"
          /\ target_desc = 0
          /\ \/ pc \in {"load", "factory", "select"}
             \/ exit_code = 1
             \/ exit_code = 3 /\ pc = "exited"

\* C10 witness: two descriptors carry the target and the first was chosen.
C10_Witness ==
    /\ Len(descriptors) = 2
    /\ IsMatch(descriptors[1]) /\ IsMatch(descriptors[2])
    /\ target_desc = 1
    /\ lifecycle = "Created"

\* The steps whose failure ends the run, as the log names a failure.
Failures == {"failed_load", "failed_factory", "failed_select", "failed_host_info",
             "failed_new_instance", "failed_activate", "failed_start_processing"}

\* C11: a failed load, factory lookup, selection, host identity, instance
\* construction, activate or start_processing is the last lifecycle step of
\* the run: nothing is retried or attempted after it, the client is never
\* activated, no block is rendered, and the exit code is set and not zero.
C11_FailureIsTerminal ==
    \A i \in 1..Len(log) :
        log[i] \in Failures =>
            /\ i = Len(log)
            /\ pc \in {"drop_jack_client", "drop_instance", "drop_bundle", "exited"}
            /\ exit_code \in {1, 3}
            /\ jack_client # "active"
            /\ lifecycle # "Processing"
            /\ ~Rendered
            /\ (log[i] = "failed_activate" => lifecycle \in {"Created", "Destroyed"})

\* C11 witness: activation failed and the run has ended.
C11_Witness ==
    /\ Len(log) >= 1
    /\ log[Len(log)] = "failed_activate"
    /\ pc = "exited"
    /\ exit_code = 1

\* C12: from the hand-off on the processor belongs to the handler and only
\* the realtime thread uses proc, in_l, in_r, scratch_l and scratch_r; the
\* main thread uses none of them again.
C12_HandlerConfinedToAudioThread ==
    Happened("activate_async") =>
        /\ proc_owner = "handler"
        /\ handler_access \subseteq {"audio"}

\* C12 witness: the realtime thread has used the handler after the hand-off.
C12_Witness ==
    /\ Happened("activate_async")
    /\ handler_access = {"audio"}
    /\ Len(scratch_l.data) = 2

\* C13: once the client is activated main is in its parked loop in every
\* later state: it never returns, nothing is stopped, deactivated, destroyed
\* or unloaded, and the instance stays Processing.
C13_NoShutdownPath ==
    Happened("activate_async") =>
        /\ pc = "park"
        /\ exit_code = -1
        /\ lifecycle = "Processing"
        /\ jack_client = "active"
        /\ proc_owner = "handler"
        /\ bundle = "loaded"

\* C13 witness: blocks are being rendered while main is parked.
C13_Witness ==
    /\ Happened("activate_async")
    /\ Happened("render")
    /\ pc = "park"
    /\ lifecycle = "Processing"

\* C14: every callback runs the processor main started, from where the
\* call before it left it: a block that renders is the generator's next n
\* frames after those of the earlier blocks, never its first n again, and
\* the processor is still the started one held by the handler.
C14_ContinuationNotRestart ==
    Rendered =>
        /\ lifecycle = "Processing"
        /\ proc_owner = "handler"
        /\ result = "Continue" =>
              /\ scratch_l.data = [i \in 1..n |-> GenL(phase_before + i - 1)]
              /\ scratch_r.data = [i \in 1..n |-> GenR(phase_before + i - 1)]
              /\ phase = (phase_before + n) % Period

\* C14 witness: a block of one frame rendered after the plugin had already
\* produced one frame carries the generator's second sample.
C14_Witness ==
    /\ Rendered
    /\ result = "Continue"
    /\ n = 1
    /\ phase_before = 1
    /\ scratch_l.data = << GenL(1) >>
    /\ GenL(1) # GenL(0)

\* C15: every render call is handed no input event, no transport and an
\* output queue without any event of an earlier callback.
C15_NoEventsCarried ==
    Rendered =>
        /\ call.input_events = << >>
        /\ call.transport = "None"
        /\ call.output_events = << >>

\* C15 witness: an earlier callback ended with an event in its output buffer,
\* and the call after it was handed an empty one.
C15_Witness ==
    /\ Rendered
    /\ events_dropped
    /\ call.output_events = << >>

\* C16: while the instance or its processor exists the bundle is loaded: on
\* the running path nothing is ever dropped, and when main returns or
\* unwinds the instance is released before the bundle.
C16_BundleOutlivesInstance ==
    (lifecycle \in {"Created", "Activated", "Processing"} \/ proc_owner # "none") =>
        bundle = "loaded"

\* C16 witness: on the way out after a started processor existed, the
\* instance is gone and the bundle is still loaded.
C16_Witness ==
    /\ Happened("start_processing")
    /\ pc = "drop_bundle"
    /\ lifecycle = "Destroyed"
    /\ bundle = "loaded"

\* C17: the plugin being one that never writes its input channels, in_l and
\* in_r hold n samples of 0.0 at every render call, whatever block lengths
\* came before.
C17_SilentInputs ==
    Rendered =>
        /\ in_l.data = Zeros(n)
        /\ in_r.data = Zeros(n)
        /\ touched.in_l \subseteq 1..n
        /\ touched.in_r \subseteq 1..n

\* C17 witness: the input buffers were allocated by an earlier, shorter block
\* and have grown again to two frames of silence.
C17_Witness ==
    /\ Rendered
    /\ n = 2
    /\ "in_l" \in created.grown
    /\ "in_l" \notin created.reallocated
    /\ in_l.data = << 0, 0 >>

\* The handler's four buffers in this state, by field name.
Buffers == [in_l |-> in_l.data, in_r |-> in_r.data,
            scratch_l |-> scratch_l.data, scratch_r |-> scratch_r.data]

\* What a buffer `before` is after a resize to len: its first min(old, len)
\* samples kept, 0.0 after them.
KeptThenZero(before, len) ==
    [i \in 1..len |-> IF i <= Len(before) THEN before[i] ELSE 0]

\* C18: in a callback of n frames a buffer is resized exactly when its length
\* differs from n (all lengths are 0 before the first callback); afterwards
\* all four buffers have length n; a resized buffer keeps its first
\* min(old length, n) samples and its added samples are 0.0 (seen on every
\* sample the plugin did not write afterwards).
C18_ResizeExactlyWhenLengthDiffers ==
    [][ jack_client = "active" =>
          /\ ~Rendered => \A b \in Names : Len(Buffers[b]) = 0
          /\ created'.resized = {b \in Names : Len(Buffers[b]) # n'}
          /\ \A b \in Names : Len(Buffers'[b]) = n'
          /\ in_l'.data = KeptThenZero(in_l.data, n')
          /\ in_r'.data = KeptThenZero(in_r.data, n')
          /\ \A i \in (1..n') \ touched'.plugin :
                /\ scratch_l'.data[i] = KeptThenZero(scratch_l.data, n')[i]
                /\ scratch_r'.data[i] = KeptThenZero(scratch_r.data, n')[i]
      ]_vars

\* C18 witness: a callback shortened all four buffers to one frame and the
\* plugin wrote nothing, so the sample rendered before is still the first.
C18_Witness ==
    /\ Rendered
    /\ n = 1
    /\ created.resized = Names
    /\ created.grown = {}
    /\ touched.plugin = {}
    /\ scratch_l.data # << 0 >>

====
